---- MODULE Spec2Model ----
(***************************************************************************)
(* The JWT token lifecycle manager of amuluze/conan (package auther):      *)
(* minting, validation, the revocation registry (BlackList), refresh       *)
(* rotation and the background cleanup worker.                              *)
(*                                                                         *)
(* Time is a discrete clock `now`.  One second is Precision clock units,   *)
(* so the whole-second truncation that jwt.NewNumericDate applies to every *)
(* timestamp written into a token is visible.  A token string is modelled  *)
(* by the record of what it encodes: the header's algorithm, the key that  *)
(* produced the signature and the claims.                                  *)
(***************************************************************************)
EXTENDS Integers, Sequences, FiniteSets, TLC

\* ------------------------------------------------------------------ bounds
MaxTime == 3
\* calls of GenerateTokenPair, of MintAccessToken, and completed rotations
MaxPairs == 1
MaxAccessMints == 1
MaxRotations == 2
\* tokens ever revoked
MaxRevoked == 2
\* callers of RefreshTokenRotate whose calls interleave with everything else
NumCallers == 1

Callers == 1..NumCallers
\* two calls of RefreshTokenRotate in flight at once
RaceCallers == 1..(NumCallers + 1)

\* ------------------------------------------------------------- constants
\* clock units per second: jwt.TimePrecision (time.Second) as used by NewNumericDate
Precision == 2
\* DefaultAutherConfig.AccessTokenExp (2h) and RefreshTokenExp (7d), scaled to the clock
DefaultAccessTokenExp == 2
DefaultRefreshTokenExp == 3
DefaultBlackListCleanupInterval == 1

AccessToken == "access"
RefreshToken == "refresh"

ErrNil == "nil"
ErrInvalidToken == "ErrInvalidToken"
ErrExpiredToken == "ErrExpiredToken"
ErrRevokedToken == "ErrRevokedToken"
ErrInvalidTokenType == "ErrInvalidTokenType"
ErrSecretKeyEmpty == "ErrSecretKeyEmpty"
\* fmt.Errorf("failed to parse token: %w", err): wraps the library's error, which is
\* none of the package's own error values
ErrParse == "ErrParse"
\* fmt.Errorf("failed to get token info: %w", err) of RevokeToken
ErrTokenInfo == "ErrTokenInfo"

\* fmt.Errorf("invalid refresh token: %w", err) of RefreshTokenRotate: a new error value
\* whose text starts with the prefix and whose chain holds err
WrapInvalidRefresh(err) ==
    CASE err = ErrInvalidToken -> "invalid refresh token: ErrInvalidToken"
      [] err = ErrExpiredToken -> "invalid refresh token: ErrExpiredToken"
      [] err = ErrRevokedToken -> "invalid refresh token: ErrRevokedToken"
      [] err = ErrParse -> "invalid refresh token: ErrParse"
      [] OTHER -> "invalid refresh token"

\* errors.Unwrap: the error a wrapped error holds, ErrNil when it holds none
Unwrap(err) ==
    CASE err = "invalid refresh token: ErrInvalidToken" -> ErrInvalidToken
      [] err = "invalid refresh token: ErrExpiredToken" -> ErrExpiredToken
      [] err = "invalid refresh token: ErrRevokedToken" -> ErrRevokedToken
      [] err = "invalid refresh token: ErrParse" -> ErrParse
      [] OTHER -> ErrNil

\* errorsIs: errors.Is(err, target) of a non-nil err and a non-nil target: err is target,
\* or wraps it
ErrorsIs(err, target) ==
    /\ err # ErrNil /\ target # ErrNil
    /\ (err = target \/ Unwrap(err) = target)

\* a nil *jwt.NumericDate
NoTime == 0 - 1

\* strings that NewAuther inspects are sequences of characters
Space == " "
DefaultIssuer == <<"c", "o", "n", "a", "n">>

VARIABLES authConfig, config, worker, stopClosed, closeOnce, now, minted, mintCalls,
          foreign, items, rot, last,
          revokedHist, rotatedHist, crashed,
          mu, regOp

vars == <<authConfig, config, worker, stopClosed, closeOnce, now, minted, mintCalls,
          foreign, items, rot, last,
          revokedHist, rotatedHist, crashed,
          mu, regOp>>

\* BlackList.mu and the registry operation each goroutine is in
lockVars == <<mu, regOp>>

\* ------------------------------------------------------------ NewAuther
RECURSIVE TrimLeft(_)
TrimLeft(s) == IF s # <<>> /\ Head(s) = Space THEN TrimLeft(Tail(s)) ELSE s

RECURSIVE TrimRight(_)
TrimRight(s) ==
    IF s # <<>> /\ s[Len(s)] = Space THEN TrimRight(SubSeq(s, 1, Len(s) - 1)) ELSE s

TrimSpace(s) == TrimRight(TrimLeft(s))

DefaultAutherConfig ==
    [SecretKey |-> <<>>,
     AccessTokenExp |-> DefaultAccessTokenExp,
     RefreshTokenExp |-> DefaultRefreshTokenExp,
     Issuer |-> DefaultIssuer,
     BlackListEnabled |-> TRUE,
     BlackListCleanupInterval |-> DefaultBlackListCleanupInterval]

\* the configurations callers construct the service with
SecretInputs == {<<"s">>}
AccessExpInputs == {0, 1}
RefreshExpInputs == {0}
IssuerInputs == {<<>>, <<Space>>}
CleanupIntervalInputs == {0}

AutherConfigs ==
    [SecretKey : SecretInputs,
     AccessTokenExp : AccessExpInputs,
     RefreshTokenExp : RefreshExpInputs,
     Issuer : IssuerInputs,
     BlackListEnabled : BOOLEAN,
     BlackListCleanupInterval : CleanupIntervalInputs]

\* NewAuther(nil)
NilConfig == [nil |-> TRUE]

\* what callers may pass to NewAuther: no configuration, an empty or blank secret,
\* a secret and issuer with surrounding blanks, any of the other fields left zero
ConstructConfigs ==
    [SecretKey : {<<>>, <<Space>>, <<"s">>, <<Space, "s">>},
     AccessTokenExp : AccessExpInputs,
     RefreshTokenExp : RefreshExpInputs,
     Issuer : IssuerInputs \cup {<<"B">>},
     BlackListEnabled : BOOLEAN,
     BlackListCleanupInterval : CleanupIntervalInputs \cup {2}]
    \cup {NilConfig}

NewAutherConfig(cfg) ==
    [SecretKey |-> TrimSpace(cfg.SecretKey),
     AccessTokenExp |->
        IF cfg.AccessTokenExp > 0 THEN cfg.AccessTokenExp
        ELSE DefaultAutherConfig.AccessTokenExp,
     RefreshTokenExp |->
        IF cfg.RefreshTokenExp > 0 THEN cfg.RefreshTokenExp
        ELSE DefaultAutherConfig.RefreshTokenExp,
     Issuer |->
        IF cfg.Issuer # <<>> THEN TrimSpace(cfg.Issuer)
        ELSE DefaultAutherConfig.Issuer,
     BlackListEnabled |-> cfg.BlackListEnabled,
     BlackListCleanupInterval |->
        IF cfg.BlackListCleanupInterval > 0 THEN cfg.BlackListCleanupInterval
        ELSE DefaultAutherConfig.BlackListCleanupInterval]

\* NewAuther accepting a secret of blanks
NewAutherBlankSecret(cfg) ==
    IF cfg = NilConfig \/ cfg.SecretKey = <<>>
    THEN [auther |-> "nil", err |-> ErrSecretKeyEmpty,
          config |-> DefaultAutherConfig, worker |-> "none"]
    ELSE [auther |-> "jwtAuther", err |-> ErrNil,
          config |-> NewAutherConfig(cfg),
          worker |-> IF NewAutherConfig(cfg).BlackListEnabled
                     THEN "running" ELSE "none"]

\* NewAuther starting the cleanup goroutine whatever the configuration says
NewAutherAlwaysStartsWorker(cfg) ==
    IF cfg = NilConfig \/ TrimSpace(cfg.SecretKey) = <<>>
    THEN [auther |-> "nil", err |-> ErrSecretKeyEmpty,
          config |-> DefaultAutherConfig, worker |-> "none"]
    ELSE [auther |-> "jwtAuther", err |-> ErrNil,
          config |-> NewAutherConfig(cfg),
          worker |-> "running"]

\* NewAuther: the service and the error it returns, the configuration of the service
\* and whether the cleanup goroutine was started
NewAuther(cfg) ==
    IF cfg = NilConfig \/ TrimSpace(cfg.SecretKey) = <<>>
    THEN [auther |-> "nil", err |-> ErrSecretKeyEmpty,
          config |-> DefaultAutherConfig, worker |-> "none"]
    ELSE [auther |-> "jwtAuther", err |-> ErrNil,
          config |-> NewAutherConfig(cfg),
          worker |-> IF NewAutherConfig(cfg).BlackListEnabled
                     THEN "running" ELSE "none"]

\* ------------------------------------------------------------- tokens
Users == {<<"u1", "n1", "r1">>}
NilMetadata == "nil"
\* the metadata callers pass to GenerateTokenPair and to MintAccessToken
PairMetadatas == {"m1"}
MintMetadatas == {NilMetadata}
HMACAlgs == {"HS256", "HS384", "HS512"}

\* jwt.NewNumericDate: t.Truncate(TimePrecision)
NewNumericDate(t) == t - (t % Precision)

NoToken ==
    [wf |-> FALSE, alg |-> "", key |-> <<>>, ID |-> 0,
     UserID |-> "", Username |-> "", Role |-> "", Type |-> "", Metadata |-> NilMetadata,
     Issuer |-> <<>>, Audience |-> {}, ExpiresAt |-> NoTime, NotBefore |-> NoTime]

\* jwt.NewWithClaims(jwt.SigningMethodHS256, claims).SignedString(key): the token string
SignedString(claims, key) ==
    [wf |-> TRUE, alg |-> "HS256", key |-> key, ID |-> claims.ID,
     UserID |-> claims.UserID, Username |-> claims.Username, Role |-> claims.Role,
     Type |-> claims.Type, Metadata |-> claims.Metadata,
     Issuer |-> claims.Issuer, Audience |-> claims.Audience,
     ExpiresAt |-> claims.ExpiresAt, NotBefore |-> claims.NotBefore]

\* generateJTI returning the same identifiers to every call
generateJTIRepeats(k) == k

\* generateJTI: 16 random bytes, hex-encoded; the k-th identifier drawn by a call is
\* distinct from every identifier drawn before
generateJTI(k) == Cardinality(minted) + k

\* generateTokenInternal: the TokenInfo (artifact) it returns; Token is the signed string.
\* Subject (= UserID) and IssuedAt (= NotBefore) are written too and never read back.
generateTokenInternal(user, tokenType, exp, metadata, k) ==
    LET claims == [ID |-> generateJTI(k),
                   UserID |-> user[1], Username |-> user[2], Role |-> user[3],
                   Type |-> tokenType, Metadata |-> metadata,
                   Issuer |-> config.Issuer, Audience |-> {config.Issuer},
                   ExpiresAt |-> NewNumericDate(now + exp),
                   NotBefore |-> NewNumericDate(now)]
    IN [Token |-> SignedString(claims, config.SecretKey),
        Type |-> tokenType,
        ExpiresAt |-> claims.ExpiresAt,
        UserID |-> user[1], Username |-> user[2], Role |-> user[3],
        Metadata |-> metadata]

\* MintAccessToken minting the wrong kind
MintAccessTokenInfoRefresh(user, exp, metadata, k) ==
    generateTokenInternal(user, RefreshToken, exp, metadata, k)

\* MintAccessToken: always AccessToken
MintAccessTokenInfo(user, exp, metadata, k) ==
    generateTokenInternal(user, AccessToken, exp, metadata, k)

\* the pair GenerateTokenPair and RefreshTokenRotate build: the access token through
\* MintAccessToken with the given metadata, the refresh token with nil metadata
MintPair(user, metadata) ==
    <<MintAccessTokenInfo(user, config.AccessTokenExp, metadata, 1),
      generateTokenInternal(user, RefreshToken, config.RefreshTokenExp, NilMetadata, 2)>>

\* ---------------------------------------------------------- jwt library
\* (*Parser).ParseUnverified: splits and decodes the token; fails on a malformed string
ParseUnverifiedOk(tok) == tok.wf

\* a key function that does not look at the signing method
SignatureOkAnyAlg(tok) == tok.key = config.SecretKey

\* a signature check that accepts any key
SignatureOkAnyKey(tok) == tok.alg \in HMACAlgs

\* the key function of ValidateToken and the signature check of ParseWithClaims
SignatureOk(tok) == tok.alg \in HMACAlgs /\ tok.key = config.SecretKey

\* the library's claims validation at time t: exp and nbf are checked when present
LibExpOk(tok, t) == tok.ExpiresAt = NoTime \/ t < tok.ExpiresAt
LibNbfOk(tok, t) == tok.NotBefore = NoTime \/ t >= tok.NotBefore

\* jwt.ParseWithClaims(token, claims, keyFunc): TRUE when err == nil
ParseWithClaimsOk(tok, t) ==
    /\ ParseUnverifiedOk(tok)
    /\ SignatureOk(tok)
    /\ LibExpOk(tok, t)
    /\ LibNbfOk(tok, t)

\* the claims ParseUnverified leaves in tmpClaims: zero values when the string is malformed
UnverifiedClaims(tok) == IF ParseUnverifiedOk(tok) THEN tok ELSE NoToken

\* ------------------------------------------------------------ BlackList
\* a fingerprint taken of the token's user instead of the token string
hashTokenOfUser(tok) == <<"sha256", tok.UserID>>

\* hashToken: hex(sha256(token)), one fingerprint per token string
hashToken(tok) == <<"sha256", tok>>

\* Add storing the time of the call (the item's CreatedAt) as the entry's ExpiresAt
BlackListAddExpiresNow(tok, userID, expiresAt) ==
    LET tokenHash == hashToken(tok)
    IN [h \in DOMAIN items \cup {tokenHash} |->
          IF h = tokenHash
          THEN [TokenHash |-> tokenHash, ExpiresAt |-> now, UserID |-> userID]
          ELSE items[h]]

\* Add appending an entry on every call instead of storing it under the fingerprint
BlackListAddAppends(tok, userID, expiresAt) ==
    LET tokenHash == hashToken(tok)
        key == <<ToString(Cardinality(DOMAIN items)), tok>>
    IN [h \in DOMAIN items \cup {key} |->
          IF h = key
          THEN [TokenHash |-> tokenHash, ExpiresAt |-> expiresAt, UserID |-> userID]
          ELSE items[h]]

\* BlackList.Add (CreatedAt, which nothing reads, is left out of the item)
BlackListAdd(tok, userID, expiresAt) ==
    LET tokenHash == hashToken(tok)
    IN [h \in DOMAIN items \cup {tokenHash} |->
          IF h = tokenHash
          THEN [TokenHash |-> tokenHash, ExpiresAt |-> expiresAt, UserID |-> userID]
          ELSE items[h]]

\* IsRevoked with the expiry test off by one: an entry counts as expired at ExpiresAt
IsRevokedExpiresEarly(tok) ==
    LET tokenHash == hashToken(tok)
    IN IF tokenHash \notin DOMAIN items THEN FALSE
       ELSE IF now >= items[tokenHash].ExpiresAt THEN FALSE
       ELSE TRUE

\* IsRevoked without the expiry test
IsRevokedNoExpiry(tok) == hashToken(tok) \in DOMAIN items

\* BlackList.IsRevoked
IsRevoked(tok) ==
    LET tokenHash == hashToken(tok)
    IN IF tokenHash \notin DOMAIN items THEN FALSE
       ELSE IF now > items[tokenHash].ExpiresAt THEN FALSE
       ELSE TRUE

\* Cleanup with the expiry test off by one: it also deletes the entries expiring now
BlackListCleanupEarly ==
    [h \in {k \in DOMAIN items : ~(now >= items[k].ExpiresAt)} |-> items[h]]

\* Cleanup sparing the entries that expired within the last unit of time
BlackListCleanupLate ==
    [h \in {k \in DOMAIN items : ~(now > items[k].ExpiresAt + 1)} |-> items[h]]

\* Cleanup emptying the registry
BlackListCleanupAll ==
    [h \in {k \in DOMAIN items : FALSE} |-> items[h]]

\* BlackList.Cleanup
BlackListCleanup ==
    [h \in {k \in DOMAIN items : ~(now > items[k].ExpiresAt)} |-> items[h]]

\* BlackList.Size
BlackListSize == Cardinality(DOMAIN items)

\* ------------------------------------------------------------ jwtAuther
AudienceOk(tok) == \E aud \in tok.Audience : aud = config.Issuer

\* the parse-error path ending in ErrInvalidToken instead of the wrapped parse error
ValidateFallbackEndsInvalid(tok) ==
    LET tmpClaims == UnverifiedClaims(tok)
    IN IF tmpClaims.ExpiresAt # NoTime /\ now > tmpClaims.ExpiresAt THEN ErrExpiredToken
       ELSE ErrInvalidToken

\* the parse-error path looking at the issuer before the expiry
ValidateFallbackIssuerFirst(tok) ==
    LET tmpClaims == UnverifiedClaims(tok)
    IN IF tmpClaims.Issuer # <<>> /\ config.Issuer # <<>>
          /\ tmpClaims.Issuer # config.Issuer THEN ErrInvalidToken
       ELSE IF tmpClaims.ExpiresAt # NoTime /\ now > tmpClaims.ExpiresAt THEN ErrExpiredToken
       ELSE IF tmpClaims.NotBefore # NoTime /\ now < tmpClaims.NotBefore THEN ErrInvalidToken
       ELSE IF tmpClaims.Audience # {} /\ config.Issuer # <<>> /\ ~AudienceOk(tmpClaims)
            THEN ErrInvalidToken
       ELSE ErrParse

\* the classification of the parse-error path of ValidateToken, from unverified claims
ValidateFallback(tok) ==
    LET tmpClaims == UnverifiedClaims(tok)
    IN IF tmpClaims.ExpiresAt # NoTime /\ now > tmpClaims.ExpiresAt THEN ErrExpiredToken
       ELSE IF tmpClaims.NotBefore # NoTime /\ now < tmpClaims.NotBefore THEN ErrInvalidToken
       ELSE IF tmpClaims.Issuer # <<>> /\ config.Issuer # <<>>
               /\ tmpClaims.Issuer # config.Issuer THEN ErrInvalidToken
       ELSE IF tmpClaims.Audience # {} /\ config.Issuer # <<>> /\ ~AudienceOk(tmpClaims)
            THEN ErrInvalidToken
       ELSE ErrParse

\* ValidateToken consulting the registry after parsing instead of before
ValidateTokenRegistryLast(tok) ==
    IF ~ParseWithClaimsOk(tok, now) THEN ValidateFallback(tok)
    ELSE IF tok.NotBefore # NoTime /\ now < tok.NotBefore THEN ErrInvalidToken
    ELSE IF config.Issuer # <<>> /\ tok.Issuer # config.Issuer THEN ErrInvalidToken
    ELSE IF config.Issuer # <<>> /\ ~AudienceOk(tok) THEN ErrInvalidToken
    ELSE IF config.BlackListEnabled /\ IsRevoked(tok) THEN ErrRevokedToken
    ELSE ErrNil

\* ValidateToken: the error it returns (ErrNil: the claims of the token are returned)
ValidateToken(tok) ==
    IF config.BlackListEnabled /\ IsRevoked(tok) THEN ErrRevokedToken
    ELSE IF ~ParseWithClaimsOk(tok, now) THEN ValidateFallback(tok)
    ELSE IF tok.NotBefore # NoTime /\ now < tok.NotBefore THEN ErrInvalidToken
    ELSE IF config.Issuer # <<>> /\ tok.Issuer # config.Issuer THEN ErrInvalidToken
    ELSE IF config.Issuer # <<>> /\ ~AudienceOk(tok) THEN ErrInvalidToken
    ELSE ErrNil

\* GetTokenInfo: ParseUnverified without validation
GetTokenInfoOk(tok) == ParseUnverifiedOk(tok)

\* IsTokenRevoked
IsTokenRevoked(tok) == IF ~config.BlackListEnabled THEN FALSE ELSE IsRevoked(tok)

\* ------------------------------------------------- tokens from elsewhere
\* token strings the service did not mint: forged with another key, minted by a service
\* instance that shares the secret, signed with a non-HMAC algorithm, or malformed
OtherSecret == <<"x">>
OtherIssuer == <<"B">>

\* (a token of algorithm "none" carries no signature: nothing but the check of the
\* algorithm stands between it and the key the service verifies with)
SignedWith ==
    {<<"HS256", <<"s">>>>, <<"HS256", OtherSecret>>, <<"RS256", OtherSecret>>,
     <<"none", <<"s">>>>}
ForeignTimes == {NoTime, Precision}

ForeignTokens ==
    { [wf |-> TRUE, alg |-> sw[1], key |-> sw[2], ID |-> 0,
       UserID |-> "u1", Username |-> "n1", Role |-> "r1", Type |-> type,
       Metadata |-> NilMetadata, Issuer |-> iss, Audience |-> aud,
       ExpiresAt |-> exp, NotBefore |-> nbf] :
         sw \in SignedWith, type \in {AccessToken, RefreshToken},
         iss \in {DefaultIssuer, OtherIssuer, <<>>},
         aud \in {{DefaultIssuer}, {OtherIssuer}, {<<>>}, {}},
         exp \in ForeignTimes, nbf \in ForeignTimes }
    \cup {NoToken}

\* the token strings a caller can present
Presentable == minted \cup foreign

\* ------------------------------------------------------------------ state
\* a caller's call of RefreshTokenRotate in flight: where it is and the token presented
NoCall == [pc |-> "idle", tok |-> NoToken]

\* how many calls of RefreshTokenRotate(tok) have returned a pair
RotateCount(tok) == IF tok \in DOMAIN rotatedHist THEN rotatedHist[tok] ELSE 0

\* the step just taken: the token presented to it, the error (or the answer) the call
\* returned with it, and the token artifacts it returned
Did(op, tok, err, pair) == [op |-> op, tok |-> tok, err |-> err, pair |-> pair]

\* the goroutines that use the registry: two callers and the cleanup worker
LockThreads == {"c1", "c2", "worker"}
RegistryOps == {"Add", "IsRevoked", "Cleanup", "Size"}

\* a goroutine outside every registry operation
NoRegOp == [pc |-> "idle", op |-> "", tok |-> NoToken]

InitService(configs) ==
    /\ authConfig \in configs
    /\ NewAuther(authConfig).err = ErrNil
    /\ config = NewAuther(authConfig).config
    /\ worker = NewAuther(authConfig).worker
    /\ stopClosed = FALSE
    /\ closeOnce = FALSE
    /\ now = 0
    /\ minted = {}
    /\ mintCalls = [pairs |-> 0, access |-> 0, rotations |-> 0]
    /\ items = <<>>
    /\ rot = [c \in RaceCallers |-> NoCall]
    /\ last = Did("NewAuther", NoToken, ErrNil, <<>>)
    /\ revokedHist = {}
    /\ rotatedHist = <<>>
    /\ crashed = FALSE
    /\ mu = {}
    /\ regOp = [t \in LockThreads |-> NoRegOp]

\* the service and the tokens it mints
Init ==
    /\ InitService({c \in AutherConfigs : c.Issuer = <<>>})
    /\ foreign = {}

\* the service and one token string from elsewhere that callers present to it
InitPresented ==
    /\ InitService(AutherConfigs)
    /\ \E tok \in ForeignTokens : foreign = {tok}

\* ---------------------------------------------------------------- actions
\* the clock advances
Tick ==
    /\ ~crashed
    /\ now < MaxTime
    /\ now' = now + 1
    /\ last' = Did("Tick", NoToken, ErrNil, <<>>)
    /\ UNCHANGED <<authConfig, config, worker, stopClosed, closeOnce, minted, mintCalls,
                   foreign, items, rot,
                   revokedHist, rotatedHist, crashed>>
    /\ UNCHANGED lockVars

GenerateTokenPair(user, metadata) ==
    /\ ~crashed
    /\ mintCalls.pairs < MaxPairs
    /\ mintCalls' = [mintCalls EXCEPT !.pairs = @ + 1]
    /\ LET pair == MintPair(user, metadata)
       IN /\ minted' = minted \cup {pair[1].Token, pair[2].Token}
          /\ last' = Did("GenerateTokenPair", NoToken, ErrNil, pair)
    /\ UNCHANGED <<authConfig, config, worker, stopClosed, closeOnce, now, foreign, items, rot,
                   revokedHist, rotatedHist, crashed>>
    /\ UNCHANGED lockVars

\* the durations callers pass to MintAccessToken
MintExps == {Precision}

MintAccessToken(user, exp, metadata) ==
    /\ ~crashed
    /\ mintCalls.access < MaxAccessMints
    /\ mintCalls' = [mintCalls EXCEPT !.access = @ + 1]
    /\ LET info == MintAccessTokenInfo(user, exp, metadata, 1)
       IN /\ minted' = minted \cup {info.Token}
          /\ last' = Did("MintAccessToken", NoToken, ErrNil, <<info>>)
    /\ UNCHANGED <<authConfig, config, worker, stopClosed, closeOnce, now, foreign, items, rot,
                   revokedHist, rotatedHist, crashed>>
    /\ UNCHANGED lockVars

DoValidateToken(tok) ==
    /\ ~crashed
    /\ last' = Did("ValidateToken", tok, ValidateToken(tok), <<>>)
    /\ UNCHANGED <<authConfig, config, worker, stopClosed, closeOnce, now, minted,
                   mintCalls, foreign, items, rot,
                   revokedHist, rotatedHist, crashed>>
    /\ UNCHANGED lockVars

\* RevokeToken without the test of BlackListEnabled
RevokeTokenAlways(tok) ==
    /\ ~crashed
    /\ Cardinality(revokedHist \cup {tok}) <= MaxRevoked
    /\ IF ~GetTokenInfoOk(tok)
       THEN /\ last' = Did("RevokeToken", tok, ErrTokenInfo, <<>>)
            /\ UNCHANGED <<items, revokedHist, crashed>>
       ELSE IF tok.ExpiresAt = NoTime
       THEN /\ crashed' = TRUE
            /\ last' = Did("RevokeToken", tok, "panic", <<>>)
            /\ UNCHANGED <<items, revokedHist>>
       ELSE /\ items' = BlackListAdd(tok, tok.UserID, tok.ExpiresAt)
            /\ revokedHist' = revokedHist \cup {tok}
            /\ last' = Did("RevokeToken", tok, ErrNil, <<>>)
            /\ UNCHANGED crashed
    /\ UNCHANGED <<authConfig, config, worker, stopClosed, closeOnce, now, minted,
                   mintCalls, foreign, rot, rotatedHist>>
    /\ UNCHANGED lockVars

\* RevokeToken: a no-op when the blacklist is disabled; fails when the string does not
\* parse; dereferences claims.ExpiresAt, which is nil when the token carries no exp
RevokeToken(tok) ==
    /\ ~crashed
    /\ Cardinality(revokedHist \cup {tok}) <= MaxRevoked
    /\ IF ~config.BlackListEnabled
       THEN /\ last' = Did("RevokeToken", tok, ErrNil, <<>>)
            /\ UNCHANGED <<items, revokedHist, crashed>>
       ELSE IF ~GetTokenInfoOk(tok)
       THEN /\ last' = Did("RevokeToken", tok, ErrTokenInfo, <<>>)
            /\ UNCHANGED <<items, revokedHist, crashed>>
       ELSE IF tok.ExpiresAt = NoTime
       THEN /\ crashed' = TRUE
            /\ last' = Did("RevokeToken", tok, "panic", <<>>)
            /\ UNCHANGED <<items, revokedHist>>
       ELSE /\ items' = BlackListAdd(tok, tok.UserID, tok.ExpiresAt)
            /\ revokedHist' = revokedHist \cup {tok}
            /\ last' = Did("RevokeToken", tok, ErrNil, <<>>)
            /\ UNCHANGED crashed
    /\ UNCHANGED <<authConfig, config, worker, stopClosed, closeOnce, now, minted,
                   mintCalls, foreign, rot, rotatedHist>>
    /\ UNCHANGED lockVars

\* IsTokenRevoked deleting the entry it finds expired
DoIsTokenRevokedDeletes(tok) ==
    /\ ~crashed
    /\ last' = Did("IsTokenRevoked", tok, IF IsTokenRevoked(tok) THEN "true" ELSE "false", <<>>)
    /\ items' = [h \in {k \in DOMAIN items :
                           ~(k = hashToken(tok) /\ now > items[k].ExpiresAt)} |-> items[h]]
    /\ UNCHANGED <<authConfig, config, worker, stopClosed, closeOnce, now, minted,
                   mintCalls, foreign, rot,
                   revokedHist, rotatedHist, crashed>>
    /\ UNCHANGED lockVars

DoIsTokenRevoked(tok) ==
    /\ ~crashed
    /\ last' = Did("IsTokenRevoked", tok, IF IsTokenRevoked(tok) THEN "true" ELSE "false", <<>>)
    /\ UNCHANGED <<authConfig, config, worker, stopClosed, closeOnce, now, minted,
                   mintCalls, foreign, items, rot,
                   revokedHist, rotatedHist, crashed>>
    /\ UNCHANGED lockVars

\* CleanupExpiredTokens, called by a caller
CleanupExpiredTokens ==
    /\ ~crashed
    /\ items' = IF config.BlackListEnabled THEN BlackListCleanup ELSE items
    /\ last' = Did("CleanupExpiredTokens", NoToken, ErrNil, <<>>)
    /\ UNCHANGED <<authConfig, config, worker, stopClosed, closeOnce, now, minted,
                   mintCalls, foreign, rot,
                   revokedHist, rotatedHist, crashed>>
    /\ UNCHANGED lockVars

\* a worker whose loop ends after the sweep of a tick
WorkerTickEndsLoop ==
    /\ ~crashed
    /\ worker = "running"
    /\ items' = IF config.BlackListEnabled THEN BlackListCleanup ELSE items
    /\ worker' = "exited"
    /\ last' = Did("WorkerTick", NoToken, ErrNil, <<>>)
    /\ UNCHANGED <<authConfig, config, stopClosed, closeOnce, now, minted,
                   mintCalls, foreign, rot,
                   revokedHist, rotatedHist, crashed>>
    /\ UNCHANGED lockVars

\* startBlackListCleanup: the ticker case of the select
WorkerTick ==
    /\ ~crashed
    /\ worker = "running"
    /\ items' = IF config.BlackListEnabled THEN BlackListCleanup ELSE items
    /\ last' = Did("WorkerTick", NoToken, ErrNil, <<>>)
    /\ UNCHANGED <<authConfig, config, worker, stopClosed, closeOnce, now, minted,
                   mintCalls, foreign, rot,
                   revokedHist, rotatedHist, crashed>>
    /\ UNCHANGED lockVars

\* startBlackListCleanup: the ticker case of the select when the sweep it calls panics.
\* The function defers ticker.Stop() and nothing else: no recover runs, the panic leaves
\* the goroutine and the runtime ends the process.
WorkerTickPanics ==
    /\ ~crashed
    /\ worker = "running"
    /\ crashed' = TRUE
    /\ worker' = "exited"
    /\ last' = Did("WorkerTick", NoToken, "panic", <<>>)
    /\ UNCHANGED <<authConfig, config, stopClosed, closeOnce, now, minted, mintCalls,
                   foreign, items, rot,
                   revokedHist, rotatedHist>>
    /\ UNCHANGED lockVars

\* a worker that receives the stop signal and goes on with its loop
WorkerStopKeepsRunning ==
    /\ ~crashed
    /\ worker = "running"
    /\ stopClosed
    /\ last' = Did("WorkerStop", NoToken, ErrNil, <<>>)
    /\ UNCHANGED <<authConfig, config, worker, stopClosed, closeOnce, now, minted, mintCalls,
                   foreign, items, rot,
                   revokedHist, rotatedHist, crashed>>
    /\ UNCHANGED lockVars

\* startBlackListCleanup: the stopChan case of the select
WorkerStop ==
    /\ ~crashed
    /\ worker = "running"
    /\ stopClosed
    /\ worker' = "exited"
    /\ last' = Did("WorkerStop", NoToken, ErrNil, <<>>)
    /\ UNCHANGED <<authConfig, config, stopClosed, closeOnce, now, minted, mintCalls,
                   foreign, items, rot,
                   revokedHist, rotatedHist, crashed>>
    /\ UNCHANGED lockVars

\* Close calling close(stopChan) without the sync.Once: closing a closed channel panics
CloseWithoutOnce ==
    /\ ~crashed
    /\ IF stopClosed
       THEN /\ crashed' = TRUE
            /\ last' = Did("Close", NoToken, "panic", <<>>)
            /\ UNCHANGED stopClosed
       ELSE /\ stopClosed' = TRUE
            /\ last' = Did("Close", NoToken, ErrNil, <<>>)
            /\ UNCHANGED crashed
    /\ UNCHANGED <<authConfig, config, worker, closeOnce, now, minted, mintCalls, foreign,
                   items, rot,
                   revokedHist, rotatedHist>>
    /\ UNCHANGED lockVars

\* Close: closeOnce.Do(func() { close(a.stopChan) }); return nil.  Once.Do runs the
\* function in the first call only; close of a closed channel panics
Close ==
    /\ ~crashed
    /\ IF closeOnce
       THEN /\ last' = Did("Close", NoToken, ErrNil, <<>>)
            /\ UNCHANGED <<stopClosed, closeOnce, crashed>>
       ELSE /\ closeOnce' = TRUE
            /\ IF stopClosed
               THEN /\ crashed' = TRUE
                    /\ last' = Did("Close", NoToken, "panic", <<>>)
                    /\ UNCHANGED stopClosed
               ELSE /\ stopClosed' = TRUE
                    /\ last' = Did("Close", NoToken, ErrNil, <<>>)
                    /\ UNCHANGED crashed
    /\ UNCHANGED <<authConfig, config, worker, now, minted, mintCalls, foreign, items, rot,
                   revokedHist, rotatedHist>>
    /\ UNCHANGED lockVars

\* RefreshTokenRotate refusing a token it has rotated before, whatever the configuration
RotateCheckSingleUse(tok) ==
    IF ValidateToken(tok) # ErrNil THEN WrapInvalidRefresh(ValidateToken(tok))
    ELSE IF tok.Type # RefreshToken THEN ErrInvalidTokenType
    ELSE IF tok \in DOMAIN rotatedHist THEN ErrRevokedToken
    ELSE ErrNil

\* RefreshTokenRotate without the kind check
RotateCheckNoKind(tok) ==
    IF ValidateToken(tok) # ErrNil THEN WrapInvalidRefresh(ValidateToken(tok)) ELSE ErrNil

\* RefreshTokenRotate formatting the validation error with %v: the text is kept, the
\* chain is lost
RotateCheckLosesKind(tok) ==
    IF ValidateToken(tok) # ErrNil THEN "invalid refresh token"
    ELSE IF tok.Type # RefreshToken THEN ErrInvalidTokenType
    ELSE ErrNil

\* what RefreshTokenRotate returns before it touches anything: the validation error,
\* wrapped, or the kind error; ErrNil when it goes on to revoke and mint
RotateCheck(tok) ==
    IF ValidateToken(tok) # ErrNil THEN WrapInvalidRefresh(ValidateToken(tok))
    ELSE IF tok.Type # RefreshToken THEN ErrInvalidTokenType
    ELSE ErrNil

\* RefreshTokenRotate going from the checks straight to minting, without RevokeToken
RotateValidateSkipsRevoke(c, tok) ==
    /\ ~crashed
    /\ rot[c].pc = "idle"
    /\ rot' = [rot EXCEPT ![c] =
                 IF RotateCheck(tok) # ErrNil THEN NoCall
                 ELSE [pc |-> "mint", tok |-> tok]]
    /\ last' = Did("RotateValidate", tok, RotateCheck(tok), <<>>)
    /\ UNCHANGED <<authConfig, config, worker, stopClosed, closeOnce, now, minted,
                   mintCalls, foreign, items,
                   revokedHist, rotatedHist, crashed>>
    /\ UNCHANGED lockVars

\* RefreshTokenRotate, first step: ValidateToken and the kind check
RotateValidate(c, tok) ==
    /\ ~crashed
    /\ rot[c].pc = "idle"
    /\ rot' = [rot EXCEPT ![c] =
                 IF RotateCheck(tok) # ErrNil THEN NoCall
                 ELSE [pc |-> IF config.BlackListEnabled THEN "revoke" ELSE "mint",
                       tok |-> tok]]
    /\ last' = Did("RotateValidate", tok, RotateCheck(tok), <<>>)
    /\ UNCHANGED <<authConfig, config, worker, stopClosed, closeOnce, now, minted,
                   mintCalls, foreign, items,
                   revokedHist, rotatedHist, crashed>>
    /\ UNCHANGED lockVars

\* RefreshTokenRotate revoking the presented token for a full refresh lifetime from now
RotateRevokeFullLifetime(c) ==
    /\ ~crashed
    /\ rot[c].pc = "revoke"
    /\ Cardinality(revokedHist \cup {rot[c].tok}) <= MaxRevoked
    /\ LET tok == rot[c].tok
       IN IF tok.ExpiresAt = NoTime
          THEN /\ crashed' = TRUE
               /\ rot' = [rot EXCEPT ![c].pc = "panic"]
               /\ UNCHANGED <<items, revokedHist>>
          ELSE /\ items' = BlackListAdd(tok, tok.UserID, now + config.RefreshTokenExp)
               /\ revokedHist' = revokedHist \cup {tok}
               /\ rot' = [rot EXCEPT ![c].pc = "mint"]
               /\ UNCHANGED crashed
    /\ last' = Did("RotateRevoke", rot[c].tok, ErrNil, <<>>)
    /\ UNCHANGED <<authConfig, config, worker, stopClosed, closeOnce, now, minted,
                   mintCalls, foreign, rotatedHist>>
    /\ UNCHANGED lockVars

\* RefreshTokenRotate, second step: RevokeToken of the presented token
RotateRevoke(c) ==
    /\ ~crashed
    /\ rot[c].pc = "revoke"
    /\ Cardinality(revokedHist \cup {rot[c].tok}) <= MaxRevoked
    /\ LET tok == rot[c].tok
       IN IF tok.ExpiresAt = NoTime
          THEN /\ crashed' = TRUE
               /\ rot' = [rot EXCEPT ![c].pc = "panic"]
               /\ UNCHANGED <<items, revokedHist>>
          ELSE /\ items' = BlackListAdd(tok, tok.UserID, tok.ExpiresAt)
               /\ revokedHist' = revokedHist \cup {tok}
               /\ rot' = [rot EXCEPT ![c].pc = "mint"]
               /\ UNCHANGED crashed
    /\ last' = Did("RotateRevoke", rot[c].tok, ErrNil, <<>>)
    /\ UNCHANGED <<authConfig, config, worker, stopClosed, closeOnce, now, minted,
                   mintCalls, foreign, rotatedHist>>
    /\ UNCHANGED lockVars

\* RefreshTokenRotate, last step: the new pair is minted from the validated claims
RotateMint(c) ==
    /\ ~crashed
    /\ rot[c].pc = "mint"
    /\ mintCalls.rotations < MaxRotations
    /\ mintCalls' = [mintCalls EXCEPT !.rotations = @ + 1]
    /\ LET tok == rot[c].tok
           pair == MintPair(<<tok.UserID, tok.Username, tok.Role>>, tok.Metadata)
       IN /\ minted' = minted \cup {pair[1].Token, pair[2].Token}
          /\ rot' = [rot EXCEPT ![c] = NoCall]
          /\ rotatedHist' = [t \in DOMAIN rotatedHist \cup {tok} |->
                                IF t = tok THEN RotateCount(tok) + 1 ELSE rotatedHist[t]]
          /\ last' = Did("RotateMint", tok, ErrNil, pair)
    /\ UNCHANGED <<authConfig, config, worker, stopClosed, closeOnce, now, foreign, items,
                   revokedHist, crashed>>
    /\ UNCHANGED lockVars

\* ------------------------------------------------- BlackList.mu (sync.RWMutex)
\* the mode in which an operation takes bl.mu: Add and Cleanup call Lock, IsRevoked and
\* Size call RLock
LockMode(op) == IF op \in {"Add", "Cleanup"} THEN "w" ELSE "r"

\* the goroutines that have called Lock and are blocked in it
PendingWriters == {t \in LockThreads : regOp[t].pc = "waiting" /\ LockMode(regOp[t].op) = "w"}

\* a Lock that does not wait for the readers to leave
CanLockIgnoresReaders(t) == \A h \in mu : h[2] # "w"

\* sync.RWMutex.Lock returns when no goroutine holds the mutex
CanLock(t) == mu = {}

\* sync.RWMutex.RLock returns when no writer holds the mutex and none is blocked in Lock
CanRLock(t) == (\A h \in mu : h[2] # "w") /\ PendingWriters = {}

\* a goroutine enters a registry operation: the worker only sweeps, and only while it
\* runs; callers issue any operation on any token they hold
RegBegin(t, op, tok) ==
    /\ ~crashed
    /\ config.BlackListEnabled
    /\ regOp[t].pc = "idle"
    /\ t = "worker" => (op = "Cleanup" /\ worker = "running")
    /\ op \in {"Cleanup", "Size"} => tok = NoToken
    /\ op \in {"Add", "IsRevoked"} => tok # NoToken
    /\ op = "Add" => (tok.ExpiresAt # NoTime
                      /\ Cardinality(revokedHist \cup {tok}) <= MaxRevoked)
    /\ regOp' = [regOp EXCEPT ![t] = [pc |-> "waiting", op |-> op, tok |-> tok]]
    /\ last' = Did("RegBegin", tok, ErrNil, <<>>)
    /\ UNCHANGED <<authConfig, config, worker, stopClosed, closeOnce, now, minted, mintCalls,
                   foreign, items, rot,
                   revokedHist, rotatedHist, crashed, mu>>

\* bl.mu.Lock() or bl.mu.RLock() returns
RegAcquire(t) ==
    /\ ~crashed
    /\ regOp[t].pc = "waiting"
    /\ IF LockMode(regOp[t].op) = "w" THEN CanLock(t) ELSE CanRLock(t)
    /\ mu' = mu \cup {<<t, LockMode(regOp[t].op)>>}
    /\ regOp' = [regOp EXCEPT ![t].pc = "held"]
    /\ last' = Did("RegAcquire", regOp[t].tok, ErrNil, <<>>)
    /\ UNCHANGED <<authConfig, config, worker, stopClosed, closeOnce, now, minted, mintCalls,
                   foreign, items, rot,
                   revokedHist, rotatedHist, crashed>>

\* the body of the operation runs under the mutex and the deferred Unlock / RUnlock
\* releases it
RegRelease(t) ==
    /\ ~crashed
    /\ regOp[t].pc = "held"
    /\ LET op == regOp[t].op
           tok == regOp[t].tok
       IN /\ items' = CASE op = "Add" -> BlackListAdd(tok, tok.UserID, tok.ExpiresAt)
                         [] op = "Cleanup" -> BlackListCleanup
                         [] OTHER -> items
          /\ revokedHist' = IF op = "Add" THEN revokedHist \cup {tok} ELSE revokedHist
          /\ last' = Did(op, tok,
                         CASE op = "IsRevoked" -> IF IsRevoked(tok) THEN "true" ELSE "false"
                           [] op = "Size" -> ToString(BlackListSize)
                           [] OTHER -> ErrNil,
                         <<>>)
    /\ mu' = {h \in mu : h[1] # t}
    /\ regOp' = [regOp EXCEPT ![t] = NoRegOp]
    /\ UNCHANGED <<authConfig, config, worker, stopClosed, closeOnce, now, minted, mintCalls,
                   foreign, rot,
                   rotatedHist, crashed>>

\* the service, its callers and its background worker
Next ==
    \/ Tick
    \/ \E user \in Users, metadata \in PairMetadatas : GenerateTokenPair(user, metadata)
    \/ \E user \in Users, exp \in MintExps, metadata \in MintMetadatas :
          MintAccessToken(user, exp, metadata)
    \/ \E tok \in Presentable : RevokeToken(tok)
    \/ CleanupExpiredTokens
    \/ WorkerTick
    \/ WorkerStop
    \/ Close
    \/ \E c \in Callers, tok \in Presentable : RotateValidate(c, tok)
    \/ \E c \in Callers : RotateRevoke(c)
    \/ \E c \in Callers : RotateMint(c)

Spec == Init /\ [][Next]_vars

\* the ticker of startBlackListCleanup keeps firing and the goroutine is scheduled: a
\* case of its select that stays ready is taken
SpecFair == Init /\ [][Next]_vars /\ WF_vars(WorkerTick) /\ WF_vars(WorkerStop)

\* the service when a sweep of the background worker may panic
NextSweepPanics ==
    \/ Next
    \/ WorkerTickPanics

SpecSweepPanics == Init /\ [][NextSweepPanics]_vars

\* two callers rotating the tokens of a minted pair at the same time
NextRace ==
    \/ Tick
    \/ \E user \in Users, metadata \in PairMetadatas : GenerateTokenPair(user, metadata)
    \/ \E c \in RaceCallers, tok \in Presentable : RotateValidate(c, tok)
    \/ \E c \in RaceCallers : RotateRevoke(c)
    \/ \E c \in RaceCallers : RotateMint(c)

SpecRace == Init /\ [][NextRace]_vars

\* callers presenting one token string from elsewhere
NextPresented ==
    \/ Tick
    \/ \E tok \in Presentable : DoValidateToken(tok)
    \/ \E tok \in Presentable : DoIsTokenRevoked(tok)
    \/ \E tok \in Presentable : RevokeToken(tok)
    \/ CleanupExpiredTokens

SpecPresented == InitPresented /\ [][NextPresented]_vars

\* the service and one token string from elsewhere presented to RefreshTokenRotate:
\* the tokens above, and refresh tokens whose claims carry metadata
RotatePresentedTokens ==
    ForeignTokens \cup
    { [t EXCEPT !.Metadata = m] :
        t \in {f \in ForeignTokens : f.wf /\ f.Type = RefreshToken}, m \in PairMetadatas }

InitRotatePresented ==
    /\ InitService(AutherConfigs)
    /\ \E tok \in RotatePresentedTokens : foreign = {tok}

\* callers presenting one token string from elsewhere to RefreshTokenRotate
NextRotatePresented ==
    \/ Tick
    \/ \E tok \in Presentable : RevokeToken(tok)
    \/ CleanupExpiredTokens
    \/ \E c \in Callers, tok \in Presentable : RotateValidate(c, tok)
    \/ \E c \in Callers : RotateRevoke(c)
    \/ \E c \in Callers : RotateMint(c)

SpecRotatePresented == InitRotatePresented /\ [][NextRotatePresented]_vars

\* the tokens the goroutines revoke and look up in the registry
LockTokens ==
    {t \in ForeignTokens : /\ t.wf /\ t.alg = "HS256" /\ t.key = <<"s">>
                           /\ t.Issuer = DefaultIssuer /\ t.Audience = {DefaultIssuer}
                           /\ t.ExpiresAt = Precision /\ t.NotBefore = NoTime}

InitLock ==
    /\ InitService({c \in AutherConfigs : c.BlackListEnabled /\ c.Issuer = <<>>})
    /\ foreign = LockTokens

\* callers and the worker issuing registry operations at the same time
NextLock ==
    \/ Tick
    \/ \E t \in LockThreads, op \in RegistryOps, tok \in Presentable \cup {NoToken} :
          RegBegin(t, op, tok)
    \/ \E t \in LockThreads : RegAcquire(t)
    \/ \E t \in LockThreads : RegRelease(t)
    \/ Close
    \/ WorkerStop

SpecLock == InitLock /\ [][NextLock]_vars

\* NewAuther called with whatever a caller may pass; a failed call returns no service
InitConstruct ==
    /\ authConfig \in ConstructConfigs
    /\ config = NewAuther(authConfig).config
    /\ worker = NewAuther(authConfig).worker
    /\ stopClosed = FALSE
    /\ closeOnce = FALSE
    /\ now = 0
    /\ minted = {}
    /\ mintCalls = [pairs |-> 0, access |-> 0, rotations |-> 0]
    /\ foreign = {}
    /\ items = <<>>
    /\ rot = [c \in RaceCallers |-> NoCall]
    /\ last = Did("NewAuther", NoToken, NewAuther(authConfig).err, <<>>)
    /\ revokedHist = {}
    /\ rotatedHist = <<>>
    /\ crashed = FALSE
    /\ mu = {}
    /\ regOp = [t \in LockThreads |-> NoRegOp]

\* the caller holds a service only when NewAuther returned one
ServiceBuilt == NewAuther(authConfig).auther # "nil"

\* the service as constructed, minting, revoking, sweeping and closing
NextConstruct ==
    \/ ServiceBuilt /\ Tick
    \/ ServiceBuilt /\ \E user \in Users, metadata \in PairMetadatas :
                          GenerateTokenPair(user, metadata)
    \/ ServiceBuilt /\ \E tok \in Presentable : RevokeToken(tok)
    \/ ServiceBuilt /\ CleanupExpiredTokens
    \/ ServiceBuilt /\ WorkerTick
    \/ ServiceBuilt /\ WorkerStop
    \/ ServiceBuilt /\ Close

SpecConstruct == InitConstruct /\ [][NextConstruct]_vars

\* ================================================================ claims

\* C1: with revocation enabled, of the calls of RefreshTokenRotate that present the
\* same refresh token, at most one returns a new pair, however the calls interleave.
C1_AtMostOneRotationSucceeds ==
    config.BlackListEnabled =>
        \A tok \in DOMAIN rotatedHist : rotatedHist[tok] <= 1

\* C2: with revocation enabled, once RefreshTokenRotate(R) has returned a pair, a
\* RefreshTokenRotate(R) or ValidateToken(R) called at any time up to R's ExpiresAt
\* fails with ErrRevokedToken.
C2_RotatedTokenStaysRevoked ==
    config.BlackListEnabled =>
        \A R \in DOMAIN rotatedHist :
            now <= R.ExpiresAt =>
                /\ ValidateToken(R) = ErrRevokedToken
                /\ ErrorsIs(RotateCheck(R), ErrRevokedToken)
                /\ (last.op \in {"RotateValidate", "ValidateToken"} /\ last.tok = R
                        => ErrorsIs(last.err, ErrRevokedToken))

\* a second rotation of the rotated token has just been refused
C2_Witness ==
    /\ config.BlackListEnabled
    /\ last.op = "RotateValidate"
    /\ last.tok \in DOMAIN rotatedHist
    /\ now <= last.tok.ExpiresAt
    /\ ErrorsIs(last.err, ErrRevokedToken)

\* C3: whenever RefreshTokenRotate returns a pair, with revocation enabled or disabled,
\* both tokens of the pair validate immediately afterwards, and the new refresh token
\* is not the token the call was given.
C3_NewPairValidates ==
    last.op = "RotateMint" =>
        /\ ValidateToken(last.pair[1].Token) = ErrNil
        /\ ValidateToken(last.pair[2].Token) = ErrNil
        /\ last.pair[2].Token # last.tok

\* C4: with revocation enabled, after RevokeToken(T) has returned for a minted token T,
\* IsTokenRevoked(T) is true and ValidateToken(T) is ErrRevokedToken at every time up
\* to T's ExpiresAt, whatever was done in between.
C4_RevokedUntilExpiry ==
    config.BlackListEnabled =>
        \A T \in revokedHist \cap minted :
            now <= T.ExpiresAt =>
                /\ IsTokenRevoked(T)
                /\ ValidateToken(T) = ErrRevokedToken

\* a revoked token is still inside its lifetime after the clock moved, another token
\* was rotated, the service was closed and a sweep has just run
C4_Witness ==
    /\ config.BlackListEnabled
    /\ last.op \in {"WorkerTick", "CleanupExpiredTokens"}
    /\ stopClosed
    /\ now > 0
    /\ \E T \in revokedHist \cap minted :
          /\ now <= T.ExpiresAt
          /\ \E R \in DOMAIN rotatedHist : R # T

\* C5: whenever ValidateToken returns claims without an error, the token's signature
\* verifies under the configured secret, the current time is inside the token's time
\* window, its Issuer is the configured Issuer, its Audience contains the configured
\* Issuer and, with revocation enabled, the registry holds no unexpired entry for it.
C5_ValidatedTokenIsSound ==
    (last.op = "ValidateToken" /\ last.err = ErrNil) =>
        LET tok == last.tok
        IN /\ SignatureOk(tok)
           /\ (tok.NotBefore = NoTime \/ tok.NotBefore <= now)
           /\ (tok.ExpiresAt = NoTime \/ now <= tok.ExpiresAt)
           /\ tok.Issuer = config.Issuer
           /\ config.Issuer \in tok.Audience
           /\ (config.BlackListEnabled =>
                   ~(hashToken(tok) \in DOMAIN items
                       /\ now <= items[hashToken(tok)].ExpiresAt))

\* C6: a token signed with a secret other than the configured one never validates,
\* whatever its claims and whatever the registry holds.
C6_ForeignSecretNeverValidates ==
    /\ \A tok \in Presentable :
          tok.key # config.SecretKey => ValidateToken(tok) # ErrNil
    /\ (last.op = "ValidateToken" /\ last.tok.key # config.SecretKey)
          => last.err # ErrNil

\* a token forged with another secret, otherwise acceptable in every claim, has just
\* been refused on the parse-error path
C6_Witness ==
    /\ last.op = "ValidateToken"
    /\ last.tok.wf
    /\ last.tok.alg \in HMACAlgs
    /\ last.tok.key = OtherSecret
    /\ last.tok.Issuer = config.Issuer
    /\ config.Issuer \in last.tok.Audience
    /\ (last.tok.NotBefore = NoTime \/ last.tok.NotBefore <= now)
    /\ (last.tok.ExpiresAt = NoTime \/ now < last.tok.ExpiresAt)
    /\ ~IsTokenRevoked(last.tok)
    /\ last.err = ErrParse

\* C7: for a token correctly signed with the configured secret (unrevoked and inside
\* its time window) whose Issuer is not the configured Issuer, or whose Audience does
\* not contain it, ValidateToken returns ErrInvalidToken.
C7_IssuerAudienceMismatchIsInvalid ==
    LET tok == last.tok
    IN ( /\ last.op = "ValidateToken"
         /\ ParseWithClaimsOk(tok, now)
         /\ ~IsTokenRevoked(tok)
         /\ (tok.Issuer # config.Issuer \/ config.Issuer \notin tok.Audience) )
       => last.err = ErrInvalidToken

\* C8: for every token the service minted, ValidateToken at any time after the token's
\* ExpiresAt returns ErrExpiredToken, also when the token had been revoked, with
\* revocation enabled or disabled.
C8_ExpiredAfterExpiry ==
    \A T \in minted :
        now > T.ExpiresAt => ValidateToken(T) = ErrExpiredToken

\* a revoked token whose registry entry has not been swept is past its ExpiresAt
C8_Witness ==
    /\ config.BlackListEnabled
    /\ \E T \in minted \cap revokedHist :
          /\ hashToken(T) \in DOMAIN items
          /\ now > T.ExpiresAt

\* C9: GenerateTokenPair returns an access artifact of kind Access and a refresh
\* artifact of kind Refresh, both of which validate immediately after minting;
\* MintAccessToken always yields kind Access.
C9_MintedKindsAndValidity ==
    /\ last.op = "GenerateTokenPair" =>
          /\ last.pair[1].Type = AccessToken
          /\ last.pair[1].Token.Type = AccessToken
          /\ last.pair[2].Type = RefreshToken
          /\ last.pair[2].Token.Type = RefreshToken
          /\ ValidateToken(last.pair[1].Token) = ErrNil
          /\ ValidateToken(last.pair[2].Token) = ErrNil
    /\ last.op = "MintAccessToken" =>
          /\ last.pair[1].Type = AccessToken
          /\ last.pair[1].Token.Type = AccessToken

\* C10: RefreshTokenRotate given a token that validates but is of kind Access fails with
\* ErrInvalidTokenType, mints nothing and leaves the registry unchanged, so that the
\* token still validates; no call of RefreshTokenRotate goes on with, or returns a pair
\* for, a token that is not of kind Refresh.
C10_AccessTokenIsNotRotated ==
    [][ /\ \A c \in Callers, tok \in Presentable :
              ( /\ RotateValidate(c, tok)
                /\ tok.Type = AccessToken
                /\ ValidateToken(tok) = ErrNil )
              => /\ last'.err = ErrInvalidTokenType
                 /\ rot'[c] = NoCall
                 /\ minted' = minted
                 /\ mintCalls' = mintCalls
                 /\ items' = items
                 /\ revokedHist' = revokedHist
                 /\ ValidateToken(tok)' = ErrNil
        /\ \A c \in Callers : rot'[c].pc # "idle" => rot'[c].tok.Type = RefreshToken
        /\ \A tok \in DOMAIN rotatedHist' : tok.Type = RefreshToken
      ]_vars

\* a valid access token has just been refused by RefreshTokenRotate and still validates
C10_Witness ==
    /\ last.op = "RotateValidate"
    /\ last.tok.Type = AccessToken
    /\ last.err = ErrInvalidTokenType
    /\ ValidateToken(last.tok) = ErrNil

\* C11: with revocation enabled, a call of RefreshTokenRotate that has passed validation
\* and the kind check has recorded the presented token in the registry before it mints
\* anything: while the call has not minted, the token is never accepted again, and up
\* to its ExpiresAt a rotate or validate of it returns ErrRevokedToken.
C11_RevokedBeforeMinting ==
    config.BlackListEnabled =>
        \A c \in Callers :
            rot[c].pc = "mint" =>
                /\ rot[c].tok \in revokedHist
                /\ ValidateToken(rot[c].tok) # ErrNil
                /\ now <= rot[c].tok.ExpiresAt =>
                      /\ hashToken(rot[c].tok) \in DOMAIN items
                      /\ ValidateToken(rot[c].tok) = ErrRevokedToken
                      /\ ErrorsIs(RotateCheck(rot[c].tok), ErrRevokedToken)

\* a call has revoked the presented token and minted nothing yet; a sweep has run since
C11_Witness ==
    /\ config.BlackListEnabled
    /\ last.op \in {"WorkerTick", "CleanupExpiredTokens"}
    /\ \E c \in Callers :
          /\ rot[c].pc = "mint"
          /\ rot[c].tok \notin DOMAIN rotatedHist
          /\ now <= rot[c].tok.ExpiresAt
          /\ ValidateToken(rot[c].tok) = ErrRevokedToken

\* C12: with revocation disabled, RefreshTokenRotate(R) succeeds every time it is called
\* with an unexpired refresh token R, however often R has been rotated before, and R
\* itself still validates after each rotation.
C12_ReusableWhenDisabled ==
    ~config.BlackListEnabled =>
        /\ \A R \in DOMAIN rotatedHist :
              now < R.ExpiresAt =>
                  /\ ValidateToken(R) = ErrNil
                  /\ RotateCheck(R) = ErrNil
        /\ ( /\ last.op = "RotateValidate"
             /\ last.tok \in minted
             /\ last.tok.Type = RefreshToken
             /\ now < last.tok.ExpiresAt )
           => last.err = ErrNil
        /\ items = <<>>

\* the same refresh token has just been rotated for the second time and still validates
C12_Witness ==
    /\ ~config.BlackListEnabled
    /\ last.op = "RotateMint"
    /\ RotateCount(last.tok) >= 2
    /\ ValidateToken(last.tok) = ErrNil
    /\ RotateCheck(last.tok) = ErrNil

\* C13: with revocation disabled, RevokeToken returns no error and changes nothing:
\* after any sequence of calls the registry is empty, IsTokenRevoked is false for every
\* token, and a token that was valid when revoked still validates.
C13_RevokeIsNoOpWhenDisabled ==
    ~config.BlackListEnabled =>
        /\ BlackListSize = 0
        /\ \A tok \in Presentable : ~IsTokenRevoked(tok)
        /\ last.op = "RevokeToken" =>
              /\ last.err = ErrNil
              /\ (now < last.tok.ExpiresAt => ValidateToken(last.tok) = ErrNil)

\* with revocation disabled, a token has just been revoked after a rotation, and it
\* still validates
C13_Witness ==
    /\ ~config.BlackListEnabled
    /\ last.op = "RevokeToken"
    /\ rotatedHist # <<>>
    /\ now > 0
    /\ ValidateToken(last.tok) = ErrNil
    /\ BlackListSize = 0

\* C14: Close may be called any number of times, with revocation enabled or disabled:
\* every call returns without error or panic, and the stop signal is closed once, by
\* the first call, and stays closed.
C14_CloseIsIdempotent ==
    /\ last.op = "Close" => (last.err = ErrNil /\ ~crashed /\ stopClosed)
    /\ worker = "exited" => stopClosed

\* Close has just returned again after the worker had already stopped on the first Close
C14_Witness ==
    /\ last.op = "Close"
    /\ last.err = ErrNil
    /\ worker = "exited"
    /\ stopClosed

\* C15: NewAuther called with no configuration, or with a secret that is empty or only
\* blanks, fails with ErrSecretKeyEmpty, returns no service and starts no worker.
C15_SecretRequired ==
    (authConfig = NilConfig \/ TrimSpace(authConfig.SecretKey) = <<>>) =>
        /\ last = Did("NewAuther", NoToken, ErrSecretKeyEmpty, <<>>)
        /\ ~ServiceBuilt
        /\ worker = "none"
        /\ minted = {} /\ items = <<>> /\ ~stopClosed

\* NewAuther has refused a secret of one blank in a configuration asking for revocation
C15_Witness ==
    /\ authConfig # NilConfig
    /\ authConfig.SecretKey = <<Space>>
    /\ authConfig.BlackListEnabled
    /\ last.err = ErrSecretKeyEmpty
    /\ worker = "none"

\* C16: a service constructed from a configuration that sets only the secret key runs
\* with the defaults: access and refresh lifetimes, Issuer "conan", cleanup interval,
\* and revocation enabled, so that the cleanup worker is started and RevokeToken takes
\* effect.
C16_DefaultsWhenOnlySecretSet ==
    ( /\ authConfig # NilConfig
      /\ TrimSpace(authConfig.SecretKey) # <<>>
      /\ authConfig.AccessTokenExp = 0
      /\ authConfig.RefreshTokenExp = 0
      /\ authConfig.Issuer = <<>>
      /\ authConfig.BlackListEnabled = FALSE
      /\ authConfig.BlackListCleanupInterval = 0 )
    => /\ config.AccessTokenExp = DefaultAccessTokenExp
       /\ config.RefreshTokenExp = DefaultRefreshTokenExp
       /\ config.Issuer = DefaultIssuer
       /\ config.BlackListCleanupInterval = DefaultBlackListCleanupInterval
       /\ config.BlackListEnabled
       /\ worker # "none"
       /\ (last.op = "RevokeToken" /\ last.err = ErrNil) => IsTokenRevoked(last.tok)

\* C17: with revocation enabled, once RevokeToken(T) has succeeded, ValidateToken(T)
\* never returns success again: not before T's expiry, not after it, not after a sweep
\* has deleted T's entry, and not after Close.
C17_RevokedNeverValidatesAgain ==
    config.BlackListEnabled =>
        \A T \in revokedHist : ValidateToken(T) # ErrNil

\* a revoked token is past its expiry, its entry has been swept and the service closed
C17_Witness ==
    /\ config.BlackListEnabled
    /\ stopClosed
    /\ \E T \in revokedHist :
          /\ hashToken(T) \notin DOMAIN items
          /\ now > T.ExpiresAt
          /\ ValidateToken(T) = ErrExpiredToken

\* C18: with revocation enabled, ValidateToken consults the registry first: for every
\* token string with an unexpired registry entry it returns ErrRevokedToken, whether or
\* not the signature verifies, the algorithm is allowed or Issuer and Audience match.
C18_RegistryConsultedFirst ==
    config.BlackListEnabled =>
        /\ \A tok \in Presentable :
              (hashToken(tok) \in DOMAIN items /\ now <= items[hashToken(tok)].ExpiresAt)
                  => ValidateToken(tok) = ErrRevokedToken
        /\ ( /\ last.op = "ValidateToken"
             /\ hashToken(last.tok) \in DOMAIN items
             /\ now <= items[hashToken(last.tok)].ExpiresAt )
           => last.err = ErrRevokedToken

\* a revoked token with a foreign signature, a non-HMAC algorithm and another issuer
\* has just been answered with ErrRevokedToken
C18_Witness ==
    /\ config.BlackListEnabled
    /\ last.op = "ValidateToken"
    /\ last.err = ErrRevokedToken
    /\ last.tok.alg \notin HMACAlgs
    /\ last.tok.key # config.SecretKey
    /\ last.tok.Issuer # config.Issuer
    /\ config.Issuer \notin last.tok.Audience

\* C19: for a correctly signed, unrevoked token whose Issuer and Audience match,
\* ValidateToken succeeds at every time from NotBefore up to and including ExpiresAt,
\* and returns ErrExpiredToken at every time after ExpiresAt.
C19_ValidThroughExpiresAt ==
    LET tok == last.tok
    IN ( /\ last.op = "ValidateToken"
         /\ ParseUnverifiedOk(tok)
         /\ SignatureOk(tok)
         /\ ~IsTokenRevoked(tok)
         /\ tok.Issuer = config.Issuer
         /\ config.Issuer \in tok.Audience
         /\ tok.ExpiresAt # NoTime
         /\ (tok.NotBefore = NoTime \/ tok.NotBefore <= now) )
       => IF now <= tok.ExpiresAt THEN last.err = ErrNil
          ELSE last.err = ErrExpiredToken

\* C20 as stated: when parsing or signature verification fails, ValidateToken classifies
\* the failure from the unverified claims in this order: ExpiresAt in the past gives
\* ErrExpiredToken; otherwise NotBefore in the future gives ErrInvalidToken; otherwise
\* an Issuer that is not the configured one, or an Audience that does not contain it,
\* gives ErrInvalidToken; otherwise the parse error is reported.  (Stated for token
\* strings that decode, so that there are unverified claims to classify.)
C20_FallbackOrder ==
    LET tok == last.tok
        tmpClaims == UnverifiedClaims(tok)
    IN ( /\ last.op = "ValidateToken"
         /\ ParseUnverifiedOk(tok)
         /\ ~(config.BlackListEnabled /\ IsRevoked(tok))
         /\ ~ParseWithClaimsOk(tok, now) )
       => last.err =
             IF tmpClaims.ExpiresAt # NoTime /\ now > tmpClaims.ExpiresAt
             THEN ErrExpiredToken
             ELSE IF tmpClaims.NotBefore # NoTime /\ now < tmpClaims.NotBefore
             THEN ErrInvalidToken
             ELSE IF tmpClaims.Issuer # config.Issuer
                     \/ config.Issuer \notin tmpClaims.Audience
             THEN ErrInvalidToken
             ELSE ErrParse

\* C20 amended: the same order, where the third step reports ErrInvalidToken only for
\* a mismatch it can see: the configured Issuer is not empty and the token carries an
\* Issuer that differs from it, or carries an Audience that does not contain it.
C20_FallbackOrderDetectable ==
    LET tok == last.tok
        tmpClaims == UnverifiedClaims(tok)
    IN ( /\ last.op = "ValidateToken"
         /\ ~(config.BlackListEnabled /\ IsRevoked(tok))
         /\ ~ParseWithClaimsOk(tok, now) )
       => last.err =
             IF tmpClaims.ExpiresAt # NoTime /\ now > tmpClaims.ExpiresAt
             THEN ErrExpiredToken
             ELSE IF tmpClaims.NotBefore # NoTime /\ now < tmpClaims.NotBefore
             THEN ErrInvalidToken
             ELSE IF /\ config.Issuer # <<>>
                     /\ \/ (tmpClaims.Issuer # <<>> /\ tmpClaims.Issuer # config.Issuer)
                        \/ (tmpClaims.Audience # {}
                              /\ config.Issuer \notin tmpClaims.Audience)
             THEN ErrInvalidToken
             ELSE ErrParse

\* an expired token forged with another secret and carrying another issuer has just been
\* classified as expired, not as invalid
C20_Witness ==
    /\ last.op = "ValidateToken"
    /\ last.tok.key # config.SecretKey
    /\ last.tok.ExpiresAt # NoTime
    /\ now > last.tok.ExpiresAt
    /\ config.Issuer # <<>>
    /\ last.tok.Issuer = OtherIssuer
    /\ ~IsTokenRevoked(last.tok)
    /\ last.err = ErrExpiredToken

\* C21 as stated: ValidateToken reports ErrInvalidToken for a malformed token string and
\* for a token whose signature does not verify (and that is neither revoked nor expired).
C21_MalformedOrForgedIsInvalid ==
    LET tok == last.tok
    IN ( /\ last.op = "ValidateToken"
         /\ ~IsTokenRevoked(tok)
         /\ \/ ~ParseUnverifiedOk(tok)
            \/ /\ ~SignatureOk(tok)
               /\ ~(tok.ExpiresAt # NoTime /\ now > tok.ExpiresAt) )
       => last.err = ErrInvalidToken

\* C21 amended: ValidateToken rejects a malformed token string with the wrapped parse
\* error, and a token whose signature does not verify with ErrExpiredToken,
\* ErrInvalidToken or the wrapped parse error: the parse error when nothing in its
\* unverified claims is past, early or mismatching.
C21_MalformedOrForgedIsRejected ==
    LET tok == last.tok
    IN (last.op = "ValidateToken" /\ ~IsTokenRevoked(tok)) =>
          /\ ~ParseUnverifiedOk(tok) => last.err = ErrParse
          /\ (ParseUnverifiedOk(tok) /\ ~SignatureOk(tok)) =>
                /\ last.err \in {ErrExpiredToken, ErrInvalidToken, ErrParse}
                /\ ( /\ tok.ExpiresAt = NoTime \/ now <= tok.ExpiresAt
                     /\ tok.NotBefore = NoTime \/ now >= tok.NotBefore
                     /\ tok.Issuer = config.Issuer
                     /\ config.Issuer \in tok.Audience )
                   => last.err = ErrParse

\* a token forged with another secret but carrying the configured issuer and audience
\* has just been refused with the wrapped parse error
C21_Witness ==
    /\ last.op = "ValidateToken"
    /\ ParseUnverifiedOk(last.tok)
    /\ last.tok.alg \in HMACAlgs
    /\ last.tok.key # config.SecretKey
    /\ config.Issuer # <<>>
    /\ last.tok.Issuer = config.Issuer
    /\ config.Issuer \in last.tok.Audience
    /\ last.err = ErrParse

\* C22: ValidateToken never returns success for a token whose header names a signing
\* algorithm outside the HMAC family, even when everything else about the token would
\* be acceptable.
C22_NonHMACNeverValidates ==
    /\ \A tok \in Presentable :
          tok.alg \notin HMACAlgs => ValidateToken(tok) # ErrNil
    /\ (last.op = "ValidateToken" /\ last.tok.alg \notin HMACAlgs) => last.err # ErrNil

\* a token of algorithm "none", acceptable in issuer, audience and time, has just been
\* refused
C22_Witness ==
    /\ last.op = "ValidateToken"
    /\ ParseUnverifiedOk(last.tok)
    /\ last.tok.alg = "none"
    /\ last.tok.key = config.SecretKey
    /\ last.tok.Issuer = config.Issuer
    /\ config.Issuer \in last.tok.Audience
    /\ (last.tok.NotBefore = NoTime \/ last.tok.NotBefore <= now)
    /\ (last.tok.ExpiresAt = NoTime \/ now < last.tok.ExpiresAt)
    /\ ~IsTokenRevoked(last.tok)
    /\ last.err = ErrParse

\* C23 as stated: when ValidateToken rejects the presented token, RefreshTokenRotate
\* returns that validation error unchanged, mints nothing and leaves the registry
\* unchanged.
C23_ValidationErrorUnchanged ==
    [][ \A c \in Callers, tok \in Presentable :
            (/\ RotateValidate(c, tok)
             /\ ValidateToken(tok) \in {ErrExpiredToken, ErrRevokedToken, ErrInvalidToken})
            => /\ last'.err = ValidateToken(tok)
               /\ rot'[c] = NoCall
               /\ minted' = minted /\ mintCalls' = mintCalls
               /\ items' = items /\ revokedHist' = revokedHist
      ]_vars

\* C23 amended: when ValidateToken rejects the presented token, RefreshTokenRotate
\* returns that validation error wrapped ("invalid refresh token: ..."), so that
\* errors.Is still recognises ErrExpiredToken, ErrRevokedToken or ErrInvalidToken in
\* it; it mints nothing and leaves the registry unchanged.
C23_ValidationErrorWrapped ==
    [][ \A c \in Callers, tok \in Presentable :
            (RotateValidate(c, tok) /\ ValidateToken(tok) # ErrNil)
            => /\ ErrorsIs(last'.err, ValidateToken(tok))
               /\ last'.err # ValidateToken(tok)
               /\ rot'[c] = NoCall
               /\ minted' = minted /\ mintCalls' = mintCalls
               /\ items' = items /\ revokedHist' = revokedHist
      ]_vars

\* RefreshTokenRotate has just refused a correctly signed refresh token of another
\* issuer with an error that wraps ErrInvalidToken
C23_Witness ==
    /\ last.op = "RotateValidate"
    /\ last.tok.Type = RefreshToken
    /\ SignatureOk(last.tok)
    /\ config.Issuer # <<>>
    /\ last.tok.Issuer = OtherIssuer
    /\ ValidateToken(last.tok) = ErrInvalidToken
    /\ last.err # ErrInvalidToken
    /\ ErrorsIs(last.err, ErrInvalidToken)
    /\ minted = {} /\ items = <<>>

\* C24: when RefreshTokenRotate succeeds, the access artifact and the refresh artifact of
\* the returned pair both carry the UserID, Username, Role and Metadata of the claims of
\* the validated refresh token.
C24_RotatedPairCarriesClaims ==
    last.op = "RotateMint" =>
        \A i \in {1, 2} :
            /\ last.pair[i].UserID = last.tok.UserID
            /\ last.pair[i].Username = last.tok.Username
            /\ last.pair[i].Role = last.tok.Role
            /\ last.pair[i].Metadata = last.tok.Metadata

\* C25: the metadata given to GenerateTokenPair is carried by the access token of every
\* pair obtained by rotating that pair's refresh token, and the refresh tokens of those
\* pairs in turn (every token rotated here descends from a GenerateTokenPair call, all
\* of which were given metadata of PairMetadatas).
C25_MetadataSurvivesRotation ==
    (last.op = "RotateMint" /\ last.tok \in minted) =>
        /\ last.pair[1].Metadata \in PairMetadatas
        /\ last.pair[1].Token.Metadata \in PairMetadatas

\* the access token a and the refresh token r were minted together, by one call of
\* GenerateTokenPair or RefreshTokenRotate
PairedTokens(a, r) ==
    /\ a \in minted /\ r \in minted
    /\ a.Type = AccessToken /\ r.Type = RefreshToken
    /\ r.ID = a.ID + 1
    /\ a.NotBefore = r.NotBefore

\* C26: the two tokens of a pair are independent. A step of RevokeToken or of
\* RefreshTokenRotate on one of them leaves what ValidateToken answers for the other as
\* it was, and leaves whether the other can be rotated as it was: the access token
\* minted with R validates after the rotation of R if it did before, and the refresh
\* token validates and rotates after RevokeToken(access) if it did before.
C26_PairTokensIndependent ==
    [][ \A a, r \in minted :
          PairedTokens(a, r) =>
            /\ ( \/ RevokeToken(r)
                 \/ \E c \in Callers : rot[c].tok = r /\ (RotateRevoke(c) \/ RotateMint(c))
                 \/ \E c \in Callers : RotateValidate(c, r) )
               => ValidateToken(a)' = ValidateToken(a)
            /\ ( \/ RevokeToken(a)
                 \/ \E c \in Callers : RotateValidate(c, a) )
               => /\ ValidateToken(r)' = ValidateToken(r)
                  /\ RotateCheck(r)' = RotateCheck(r)
      ]_vars

\* RefreshTokenRotate(R) has just returned a new pair with revocation enabled: R is
\* revoked, and the access token minted together with R validates
C26_Witness ==
    /\ config.BlackListEnabled
    /\ last.op = "RotateMint"
    /\ ValidateToken(last.tok) = ErrRevokedToken
    /\ \E a \in minted : PairedTokens(a, last.tok) /\ ValidateToken(a) = ErrNil

\* RevokeToken(access) has been called and the refresh token minted with it has just
\* been rotated
C26_WitnessRevokedAccess ==
    /\ config.BlackListEnabled
    /\ last.op = "RotateMint"
    /\ \E a \in minted : /\ PairedTokens(a, last.tok)
                         /\ a \in revokedHist
                         /\ ValidateToken(a) = ErrRevokedToken

\* C27: a panic raised during a sweep tick of the background worker does not crash the
\* worker: after it the process is alive and the loop still runs, until the stop signal.
C27_SweepPanicIsRecovered ==
    [][ (last'.op = "WorkerTick" /\ last'.err = "panic")
            => (~crashed' /\ worker' = "running") ]_vars

\* the registry entries whose ExpiresAt has passed
ExpiredEntries == {h \in DOMAIN items : now > items[h].ExpiresAt}

\* C28: while a service with revocation enabled has not been closed, every tick of the
\* worker runs a sweep and leaves the loop running, so that under fair ticks every
\* registry entry whose ExpiresAt has passed is eventually deleted from the registry.
C28_ExpiredEntriesEventuallyDeleted ==
    /\ [][ last'.op = "WorkerTick"
             => (worker' = "running" /\ items' = BlackListCleanup /\ ExpiredEntries' = {}) ]_vars
    /\ (config.BlackListEnabled /\ ~stopClosed /\ ExpiredEntries # {})
          ~> (ExpiredEntries = {} \/ stopClosed)

\* a tick of the worker of an open service has just deleted the entry of a revoked
\* token whose ExpiresAt has passed
C28_Witness ==
    /\ last.op = "WorkerTick"
    /\ worker = "running" /\ ~stopClosed
    /\ \E t \in revokedHist : now > t.ExpiresAt /\ hashToken(t) \notin DOMAIN items

C30_WorkerIffRevocationEnabled ==
    /\ [](/\ ServiceBuilt => ((worker # "none") <=> authConfig.BlackListEnabled)
          /\ ~ServiceBuilt => worker = "none")
    /\ [][ /\ worker' = "running" => worker = "running"
           /\ (ServiceBuilt /\ ~authConfig.BlackListEnabled)
                 => (last'.op # "WorkerTick" /\ items' = items) ]_vars

\* the one worker of a service constructed with revocation enabled has just swept
C30_Witness ==
    /\ ServiceBuilt
    /\ authConfig.BlackListEnabled
    /\ worker = "running"
    /\ last.op = "WorkerTick"

\* a caller of a service constructed with revocation disabled has just asked for a
\* sweep: there is no worker and the registry is empty
C30_WitnessDisabled ==
    /\ ServiceBuilt
    /\ ~authConfig.BlackListEnabled
    /\ worker = "none"
    /\ last.op = "CleanupExpiredTokens"
    /\ items = <<>>

\* C31: a revoke or a sweep never holds the registry's mutex together with any other
\* operation, while lookups (IsRevoked, Size) may hold it together; a goroutine takes
\* the mutex only when it holds nothing, and holds it at most once; and whenever a
\* goroutine is blocked in Lock or RLock some goroutine can take a step on the mutex
\* (no deadlock).
C31_LockDiscipline ==
    /\ [](/\ \A h \in mu : h[2] = "w" => mu = {h}
          /\ \A t \in LockThreads :
                /\ regOp[t].pc = "held" <=> (\E h \in mu : h[1] = t)
                /\ Cardinality({h \in mu : h[1] = t}) <= 1
                /\ regOp[t].pc = "held" => <<t, LockMode(regOp[t].op)>> \in mu
          /\ (\E t \in LockThreads : regOp[t].pc = "waiting")
                => \/ \E t \in LockThreads : regOp[t].pc = "held"
                   \/ \E t \in LockThreads :
                         /\ regOp[t].pc = "waiting"
                         /\ IF LockMode(regOp[t].op) = "w" THEN CanLock(t) ELSE CanRLock(t))
    /\ [][ \A t \in LockThreads :
              (\E h \in mu' : h[1] = t) /\ ~(\E h \in mu : h[1] = t)
                 => regOp[t].pc = "waiting" ]_vars

\* the lookups of two callers hold the mutex together while the worker's sweep waits
C31_Witness ==
    /\ mu = {<<"c1", "r">>, <<"c2", "r">>}
    /\ regOp["c1"].op = "IsRevoked" /\ regOp["c2"].op = "Size"
    /\ regOp["worker"].pc = "waiting" /\ regOp["worker"].op = "Cleanup"

\* the worker's sweep holds the mutex alone while both callers wait, one in a revoke
\* and one in a lookup
C31_WitnessSweep ==
    /\ mu = {<<"worker", "w">>}
    /\ regOp["c1"].pc = "waiting" /\ regOp["c1"].op = "Add"
    /\ regOp["c2"].pc = "waiting" /\ regOp["c2"].op = "IsRevoked"

\* C32: the registry holds one entry per fingerprint, and one fingerprint per distinct
\* token string: each entry is stored under its own TokenHash, and RevokeToken of a
\* token that has an entry overwrites it, leaving the size of the registry and the
\* IsRevoked result of every token as they were.
C32_RevokeIsIdempotent ==
    /\ [](/\ \A h \in DOMAIN items : items[h].TokenHash = h
          /\ \A t, u \in Presentable : hashToken(t) = hashToken(u) => t = u
          /\ BlackListSize <= Cardinality(revokedHist))
    /\ [][ \A tok \in Presentable :
              (RevokeToken(tok) /\ hashToken(tok) \in DOMAIN items)
                 => /\ BlackListSize' = BlackListSize
                    /\ DOMAIN items' = DOMAIN items
                    /\ \A u \in Presentable : IsRevoked(u)' = IsRevoked(u) ]_vars

\* RevokeToken has just been called on a refresh token that its rotation had revoked
\* already: the registry holds one entry
C32_Witness ==
    /\ config.BlackListEnabled
    /\ last.op = "RevokeToken" /\ last.err = ErrNil
    /\ last.tok \in DOMAIN rotatedHist
    /\ hashToken(last.tok) \in DOMAIN items
    /\ BlackListSize = 1

\* the steps in which a sweep of the registry runs
SweepStep ==
    /\ config.BlackListEnabled
    /\ last'.op \in {"WorkerTick", "CleanupExpiredTokens"}

\* C33: a sweep deletes exactly the entries whose ExpiresAt has passed at the time of
\* the sweep and leaves every other entry as it was; right after it no entry has an
\* ExpiresAt earlier than the time of the sweep.
C33_SweepDeletesExactlyExpired ==
    [][ SweepStep
          => /\ DOMAIN items' = {h \in DOMAIN items : ~(now > items[h].ExpiresAt)}
             /\ \A h \in DOMAIN items' : items'[h] = items[h]
             /\ \A h \in DOMAIN items' : ~(items'[h].ExpiresAt < now') ]_vars

\* a sweep has just deleted the entry of an expired token and kept the entry of a token
\* that is not expired
C33_Witness ==
    /\ last.op \in {"WorkerTick", "CleanupExpiredTokens"}
    /\ \E t, u \in revokedHist :
          /\ now > t.ExpiresAt /\ hashToken(t) \notin DOMAIN items
          /\ ~(now > u.ExpiresAt) /\ hashToken(u) \in DOMAIN items

\* C34: IsRevoked answers true exactly when the registry holds an entry for the token's
\* fingerprint whose ExpiresAt has not passed: an expired entry counts as not revoked
\* while it is still in the registry; and IsTokenRevoked and ValidateToken leave the
\* registry as it is.
C34_IsRevokedIsLazyAndReadOnly ==
    /\ [](/\ \A tok \in Presentable :
                IsRevoked(tok) <=> /\ hashToken(tok) \in DOMAIN items
                                   /\ ~(now > items[hashToken(tok)].ExpiresAt)
          /\ (last.op = "IsTokenRevoked" /\ config.BlackListEnabled)
                => (last.err = "true" <=> IsRevoked(last.tok)))
    /\ [][ last'.op \in {"IsTokenRevoked", "ValidateToken"} => items' = items ]_vars

\* IsTokenRevoked has just answered false for a token whose expired entry is still in
\* the registry
C34_Witness ==
    /\ config.BlackListEnabled
    /\ last.op = "IsTokenRevoked" /\ last.err = "false"
    /\ hashToken(last.tok) \in DOMAIN items
    /\ now > items[hashToken(last.tok)].ExpiresAt

\* IsRevoked in the same execution with the sweeps removed: every token ever added
\* still has its entry
IsRevokedUnswept(tok) == tok \in revokedHist /\ ~(now > tok.ExpiresAt)

\* ValidateToken in the same execution with the sweeps removed
ValidateTokenUnswept(tok) ==
    IF config.BlackListEnabled /\ IsRevokedUnswept(tok) THEN ErrRevokedToken
    ELSE IF ~ParseWithClaimsOk(tok, now) THEN ValidateFallback(tok)
    ELSE IF tok.NotBefore # NoTime /\ now < tok.NotBefore THEN ErrInvalidToken
    ELSE IF config.Issuer # <<>> /\ tok.Issuer # config.Issuer THEN ErrInvalidToken
    ELSE IF config.Issuer # <<>> /\ ~AudienceOk(tok) THEN ErrInvalidToken
    ELSE ErrNil

\* C35: sweeps are not observable: at every time and for every token, IsTokenRevoked
\* and ValidateToken answer as they would in the same execution without the sweeps;
\* only the size of the registry can differ.
C35_SweepsAreNotObservable ==
    \A tok \in Presentable :
        /\ IsTokenRevoked(tok) = (config.BlackListEnabled /\ IsRevokedUnswept(tok))
        /\ ValidateToken(tok) = ValidateTokenUnswept(tok)

\* a caller's sweep has just made the registry smaller than it is without sweeps, while
\* another revoked token is still revoked
C35_Witness ==
    /\ last.op = "CleanupExpiredTokens"
    /\ BlackListSize < Cardinality(revokedHist)
    /\ \E u \in revokedHist : ValidateToken(u) = ErrRevokedToken

\* C36: each registry entry is stored under the fingerprint of a token, and its
\* ExpiresAt is the ExpiresAt claim of that token, whether RevokeToken or
\* RefreshTokenRotate created it.
C36_EntryMirrorsTokenExpiry ==
    \A h \in DOMAIN items :
        \E t \in revokedHist :
            /\ h = hashToken(t)
            /\ items[h].ExpiresAt = t.ExpiresAt
            /\ items[h].UserID = t.UserID

\* the registry holds the entry of a rotated refresh token and the entry of an access
\* token that RevokeToken added
C36_Witness ==
    /\ \E r \in DOMAIN rotatedHist : hashToken(r) \in DOMAIN items
    /\ \E a \in revokedHist : a.Type = AccessToken /\ hashToken(a) \in DOMAIN items
    /\ last.op = "RevokeToken"

\* the distinct revoked tokens whose ExpiresAt has not passed
LiveRevoked == {t \in revokedHist : ~(now > t.ExpiresAt)}

\* C37 as stated: in every reachable state the registry has at most as many entries as
\* there are distinct revoked tokens whose ExpiresAt has not passed.
C37_SizeBoundedByLiveRevoked == BlackListSize <= Cardinality(LiveRevoked)

\* C37 amended: the registry never has more entries than there are distinct revoked
\* tokens, however often they were revoked, and right after a sweep it has at most as
\* many as there are distinct revoked tokens whose ExpiresAt has not passed.
C37_SizeBoundedAfterSweep ==
    /\ BlackListSize <= Cardinality(revokedHist)
    /\ (config.BlackListEnabled /\ last.op \in {"WorkerTick", "CleanupExpiredTokens"})
          => BlackListSize <= Cardinality(LiveRevoked)

\* a sweep has just left one entry out of two revoked tokens, one of them expired
C37_Witness ==
    /\ last.op \in {"WorkerTick", "CleanupExpiredTokens"}
    /\ Cardinality(revokedHist) = 2
    /\ Cardinality(LiveRevoked) = 1
    /\ BlackListSize = 1

\* C38: with revocation enabled RevokeToken returns for every input string and never
\* crashes: an unparseable string yields an error with the registry unchanged, and a
\* parseable token without an expiry claim is handled too.
C38_RevokeTokenNeverCrashes ==
    (config.BlackListEnabled /\ last.op = "RevokeToken")
        => /\ ~crashed
           /\ last.err # "panic"
           /\ ~GetTokenInfoOk(last.tok) => last.err = ErrTokenInfo

\* C39: after every successful construction the configured Issuer is non-empty, also
\* when the caller passed an Issuer made of whitespace only.
C39_IssuerNeverEmpty ==
    ServiceBuilt => config.Issuer # <<>>

====
